---- MODULE Spec2Model ----
(***************************************************************************)
(* Model of the mock platform (platform_mock.c): the process-wide state    *)
(* g_mock_platform, the public platform_* interface and the TESTING-only   *)
(* mock_platform_* control functions.  Every call is one atomic action     *)
(* (the code is single threaded).  The values that getenv() returns during *)
(* a call are inputs of that call.  `op` records the last call with the    *)
(* inputs it consumed, `ret` the value it returned.                        *)
(***************************************************************************)
EXTENDS Integers, Sequences, FiniteSets, TLC

VARIABLES g_mock_platform, op, ret

vars == <<g_mock_platform, op, ret>>

(* ---- bounds ---- *)
\* the number of counted calls (LED sets, button reads, power queries,
\* wakes) followed between two zeroings of the statistics: a call that would
\* raise the sum of the four counters past the cap is not followed
MaxCalls == 3
\* the same cap in a test build, where mock_platform_reset_stats zeroes the
\* statistics at will
TestMaxCalls == 2

(* ---- platform_led_state_t ---- *)
LED_STATE_OFF == 0
LED_STATE_PS5_ON == 1
LED_STATE_PS5_STANDBY == 2
LED_STATE_PS5_OFF == 3
LED_STATE_VPN_CONNECTING == 4
LED_STATE_VPN_CONNECTED == 5
LED_STATE_VPN_ERROR == 6
LED_STATE_QUERYING == 7
LED_STATE_WAKING == 8
LED_STATE_ERROR == 9
LED_STATE_SYSTEM_ERROR == 10
LED_STATE_SYSTEM_STARTUP == 11

\* the enumerators of platform_led_state_t
LedEnum == LED_STATE_OFF .. LED_STATE_SYSTEM_STARTUP
\* argument values tried for platform_set_led_state: the enumeration and
\* one value on each side of it (the value below it fails the range test
\* whether the enumeration type is signed or not, and %d prints it as -1)
LedArgs == (LED_STATE_OFF - 1) .. (LED_STATE_SYSTEM_STARTUP + 1)
\* the fewer argument values tried when the mock control functions run too
FewLedArgs == {LED_STATE_VPN_CONNECTED, LED_STATE_SYSTEM_STARTUP + 1}

(* ---- other enumerations and result codes, by name ---- *)
PLATFORM_BUTTON_RELEASED == "PLATFORM_BUTTON_RELEASED"
PLATFORM_BUTTON_PRESSED == "PLATFORM_BUTTON_PRESSED"
ButtonStates == {PLATFORM_BUTTON_RELEASED, PLATFORM_BUTTON_PRESSED}

PLATFORM_PS5_UNKNOWN == "PLATFORM_PS5_UNKNOWN"
PLATFORM_PS5_OFF == "PLATFORM_PS5_OFF"
PLATFORM_PS5_STANDBY == "PLATFORM_PS5_STANDBY"
PLATFORM_PS5_ON == "PLATFORM_PS5_ON"
Ps5Powers == {PLATFORM_PS5_UNKNOWN, PLATFORM_PS5_OFF, PLATFORM_PS5_STANDBY, PLATFORM_PS5_ON}

PLATFORM_OK == "PLATFORM_OK"
PLATFORM_ERROR_NOT_INITIALIZED == "PLATFORM_ERROR_NOT_INITIALIZED"
PLATFORM_ERROR_INVALID_PARAM == "PLATFORM_ERROR_INVALID_PARAM"

\* the null pointer (getenv of an unset variable, "no error")
NULL == "(null)"
\* return of a void function
VOID == "(void)"

(* ---- inputs ---- *)
\* values of MOCK_DEVICE_TYPE, MOCK_BUTTON_STATE, MOCK_PS5_POWER
DeviceTypeEnv == {NULL, "client", "server", "router"}
ButtonEnv == {NULL, "1", "pressed", "0"}
Ps5PowerEnv == {NULL, "on", "standby", "off", "sleep"}
\* arguments of mock_platform_set_device_type
DeviceTypeArgs == {NULL, "client", "server", "router"}
\* arguments of platform_set_led_rgb
RgbArgs == {<<10, 20, 30>>, <<0, 0, 255>>}
FewRgbArgs == {<<10, 20, 30>>}

(* ---- helpers ---- *)
\* printf's %d for the values that reach it
FormatInt(n) ==
  CASE n = -1 -> "-1"
    [] n = 10 -> "10"
    [] n = 11 -> "11"
    [] n = 12 -> "12"
    [] n = 13 -> "13"
    [] OTHER -> "?"

NoError == ""
ErrNotInitialized == "Platform not initialized"
ErrInvalidLedState(state) == "Invalid LED state: " \o FormatInt(state)

\* set_error that keeps an earlier message
set_error_keeps_first(g, msg) ==
  IF g.last_error = NoError THEN [g EXCEPT !.last_error = msg] ELSE g

set_error(g, msg) == [g EXCEPT !.last_error = msg]

led_state_to_rgb(state) ==
  CASE state = LED_STATE_OFF -> <<0, 0, 0>>
    [] state = LED_STATE_VPN_CONNECTING -> <<0, 0, 255>>
    [] state = LED_STATE_VPN_CONNECTED -> <<0, 255, 0>>
    [] state = LED_STATE_QUERYING -> <<255, 255, 0>>
    [] state = LED_STATE_PS5_OFF -> <<255, 0, 0>>
    [] state = LED_STATE_PS5_ON -> <<0, 255, 0>>
    [] state = LED_STATE_WAKING -> <<128, 0, 255>>
    [] state = LED_STATE_ERROR -> <<255, 0, 0>>
    [] OTHER -> <<0, 0, 0>>

\* load_device_type_from_env that falls back to "client", as its warning
\* says, when the override is not a role name
load_device_type_from_env_default(g, env_type) ==
  IF env_type # NULL /\ (env_type = "client" \/ env_type = "server")
  THEN [g EXCEPT !.device_type = env_type]
  ELSE IF env_type # NULL THEN [g EXCEPT !.device_type = "client"]
  ELSE g

load_device_type_from_env(g, env_type) ==
  IF env_type # NULL /\ (env_type = "client" \/ env_type = "server")
  THEN [g EXCEPT !.device_type = env_type]
  ELSE g

get_button_state_from_env(g, env_button) ==
  IF env_button # NULL /\ (env_button = "1" \/ env_button = "pressed")
  THEN PLATFORM_BUTTON_PRESSED
  ELSE g.button_state

\* get_ps5_power_from_env without its "standby" branch
get_ps5_power_from_env_no_standby(g, env_ps5) ==
  IF env_ps5 # NULL /\ env_ps5 = "on" THEN PLATFORM_PS5_ON
  ELSE IF env_ps5 # NULL /\ env_ps5 = "off" THEN PLATFORM_PS5_OFF
  ELSE g.ps5_power

get_ps5_power_from_env(g, env_ps5) ==
  IF env_ps5 # NULL /\ env_ps5 = "on" THEN PLATFORM_PS5_ON
  ELSE IF env_ps5 # NULL /\ env_ps5 = "standby" THEN PLATFORM_PS5_STANDBY
  ELSE IF env_ps5 # NULL /\ env_ps5 = "off" THEN PLATFORM_PS5_OFF
  ELSE g.ps5_power

ZeroStats ==
  [init_count |-> 0, led_set_count |-> 0, button_read_count |-> 0,
   ps5_query_count |-> 0, ps5_wake_count |-> 0]

\* platform_init without its "already initialized" return
InitBody_reinit(g, env_type) ==
  [load_device_type_from_env(g, env_type) EXCEPT
     !.led_state = LED_STATE_OFF,
     !.button_state = PLATFORM_BUTTON_RELEASED,
     !.ps5_power = PLATFORM_PS5_OFF,
     !.stats = [ZeroStats EXCEPT !.init_count = 1],
     !.last_error = NoError,
     !.initialized = TRUE]

\* platform_init that does not reset the stored console power
InitBody_keeps_power(g, env_type) ==
  IF g.initialized THEN g
  ELSE [load_device_type_from_env(g, env_type) EXCEPT
          !.led_state = LED_STATE_OFF,
          !.button_state = PLATFORM_BUTTON_RELEASED,
          !.stats = [ZeroStats EXCEPT !.init_count = 1],
          !.last_error = NoError,
          !.initialized = TRUE]

\* platform_init that counts every initialization instead of zeroing the
\* statistics first
InitBody_counts_inits(g, env_type) ==
  IF g.initialized THEN g
  ELSE [load_device_type_from_env(g, env_type) EXCEPT
          !.led_state = LED_STATE_OFF,
          !.button_state = PLATFORM_BUTTON_RELEASED,
          !.ps5_power = PLATFORM_PS5_OFF,
          !.stats = [ZeroStats EXCEPT !.init_count = g.stats.init_count + 1],
          !.last_error = NoError,
          !.initialized = TRUE]

\* the state platform_init leaves, as a function of the state it finds
InitBody(g, env_type) ==
  IF g.initialized THEN g
  ELSE [load_device_type_from_env(g, env_type) EXCEPT
          !.led_state = LED_STATE_OFF,
          !.button_state = PLATFORM_BUTTON_RELEASED,
          !.ps5_power = PLATFORM_PS5_OFF,
          !.stats = [ZeroStats EXCEPT !.init_count = 1],
          !.last_error = NoError,
          !.initialized = TRUE]

\* the record of a call: its name, the inputs it consumed, and whether it
\* found the platform initialized
Call(name, args) ==
  [name |-> name, args |-> args, inited |-> g_mock_platform.initialized]

(* ---- initial state: the static initializer of g_mock_platform ---- *)
Init ==
  /\ g_mock_platform =
       [initialized |-> FALSE,
        device_type |-> "client",
        version |-> "Mock-v1.0.0",
        led_state |-> LED_STATE_OFF,
        led_rgb |-> <<0, 0, 0>>,
        button_state |-> PLATFORM_BUTTON_RELEASED,
        ps5_power |-> PLATFORM_PS5_OFF,
        last_error |-> NoError,
        stats |-> ZeroStats]
  /\ op = [name |-> "start", args |-> <<>>, inited |-> FALSE]
  /\ ret = VOID

(* ---- public interface, one call each ---- *)
platform_init(env_type) ==
  /\ g_mock_platform' = InitBody(g_mock_platform, env_type)
  /\ op' = Call("platform_init", <<>>)
  /\ ret' = PLATFORM_OK

\* platform_cleanup that also clears the statistics
platform_cleanup_clears_stats ==
  /\ g_mock_platform' =
       IF ~g_mock_platform.initialized THEN g_mock_platform
       ELSE [g_mock_platform EXCEPT !.initialized = FALSE, !.stats = ZeroStats]
  /\ op' = Call("platform_cleanup", <<>>)
  /\ ret' = VOID

\* platform_cleanup that puts the default device type back
platform_cleanup_resets_type ==
  /\ g_mock_platform' =
       IF ~g_mock_platform.initialized THEN g_mock_platform
       ELSE [g_mock_platform EXCEPT !.initialized = FALSE, !.device_type = "client"]
  /\ op' = Call("platform_cleanup", <<>>)
  /\ ret' = VOID

\* platform_cleanup that also clears the error message
platform_cleanup_clears_error ==
  /\ g_mock_platform' =
       IF ~g_mock_platform.initialized THEN g_mock_platform
       ELSE [g_mock_platform EXCEPT !.initialized = FALSE, !.last_error = NoError]
  /\ op' = Call("platform_cleanup", <<>>)
  /\ ret' = VOID

platform_cleanup ==
  /\ g_mock_platform' =
       IF ~g_mock_platform.initialized THEN g_mock_platform
       ELSE [g_mock_platform EXCEPT !.initialized = FALSE]
  /\ op' = Call("platform_cleanup", <<>>)
  /\ ret' = VOID

platform_get_version ==
  /\ g_mock_platform' = g_mock_platform
  /\ op' = Call("platform_get_version", <<>>)
  /\ ret' = g_mock_platform.version

\* platform_get_device_type without the implicit initialization
platform_get_device_type_no_init(env_type) ==
  /\ g_mock_platform' = g_mock_platform
  /\ op' = Call("platform_get_device_type", <<>>)
  /\ ret' = g_mock_platform.device_type

platform_get_device_type(env_type) ==
  LET g == InitBody(g_mock_platform, env_type) IN
  /\ g_mock_platform' = g
  /\ op' = Call("platform_get_device_type", <<>>)
  /\ ret' = g.device_type

\* platform_set_led_state that does not convert the state to RGB
platform_set_led_state_keeps_colour(state) ==
  /\ op' = Call("platform_set_led_state", <<state>>)
  /\ IF ~g_mock_platform.initialized
     THEN /\ g_mock_platform' = set_error(g_mock_platform, ErrNotInitialized)
          /\ ret' = PLATFORM_ERROR_NOT_INITIALIZED
     ELSE IF state < LED_STATE_OFF \/ state > LED_STATE_ERROR
     THEN /\ g_mock_platform' = set_error(g_mock_platform, ErrInvalidLedState(state))
          /\ ret' = PLATFORM_ERROR_INVALID_PARAM
     ELSE /\ g_mock_platform' =
               [g_mock_platform EXCEPT
                  !.led_state = state,
                  !.stats.led_set_count = @ + 1]
          /\ ret' = PLATFORM_OK

\* platform_set_led_state that checks the range before the initialization
platform_set_led_state_range_first(state) ==
  /\ op' = Call("platform_set_led_state", <<state>>)
  /\ IF state < LED_STATE_OFF \/ state > LED_STATE_ERROR
     THEN /\ g_mock_platform' = set_error(g_mock_platform, ErrInvalidLedState(state))
          /\ ret' = PLATFORM_ERROR_INVALID_PARAM
     ELSE IF ~g_mock_platform.initialized
     THEN /\ g_mock_platform' = set_error(g_mock_platform, ErrNotInitialized)
          /\ ret' = PLATFORM_ERROR_NOT_INITIALIZED
     ELSE /\ g_mock_platform' =
               [g_mock_platform EXCEPT
                  !.led_state = state,
                  !.stats.led_set_count = @ + 1,
                  !.led_rgb = led_state_to_rgb(state)]
          /\ ret' = PLATFORM_OK

\* platform_set_led_state that stores the state before it validates it
platform_set_led_state_stores_first(state) ==
  /\ op' = Call("platform_set_led_state", <<state>>)
  /\ IF ~g_mock_platform.initialized
     THEN /\ g_mock_platform' = set_error(g_mock_platform, ErrNotInitialized)
          /\ ret' = PLATFORM_ERROR_NOT_INITIALIZED
     ELSE IF state < LED_STATE_OFF \/ state > LED_STATE_ERROR
     THEN /\ g_mock_platform' =
               set_error([g_mock_platform EXCEPT !.led_state = state],
                         ErrInvalidLedState(state))
          /\ ret' = PLATFORM_ERROR_INVALID_PARAM
     ELSE /\ g_mock_platform' =
               [g_mock_platform EXCEPT
                  !.led_state = state,
                  !.stats.led_set_count = @ + 1,
                  !.led_rgb = led_state_to_rgb(state)]
          /\ ret' = PLATFORM_OK

platform_set_led_state(state) ==
  /\ op' = Call("platform_set_led_state", <<state>>)
  /\ IF ~g_mock_platform.initialized
     THEN /\ g_mock_platform' = set_error(g_mock_platform, ErrNotInitialized)
          /\ ret' = PLATFORM_ERROR_NOT_INITIALIZED
     ELSE IF state < LED_STATE_OFF \/ state > LED_STATE_ERROR
     THEN /\ g_mock_platform' = set_error(g_mock_platform, ErrInvalidLedState(state))
          /\ ret' = PLATFORM_ERROR_INVALID_PARAM
     ELSE /\ g_mock_platform' =
               [g_mock_platform EXCEPT
                  !.led_state = state,
                  !.stats.led_set_count = @ + 1,
                  !.led_rgb = led_state_to_rgb(state)]
          /\ ret' = PLATFORM_OK

\* platform_set_led_rgb that stores the channels in the order B, G, R
platform_set_led_rgb_bgr(rgb) ==
  /\ op' = Call("platform_set_led_rgb", rgb)
  /\ IF ~g_mock_platform.initialized
     THEN /\ g_mock_platform' = set_error(g_mock_platform, ErrNotInitialized)
          /\ ret' = PLATFORM_ERROR_NOT_INITIALIZED
     ELSE /\ g_mock_platform' =
               [g_mock_platform EXCEPT
                  !.led_rgb = <<rgb[3], rgb[2], rgb[1]>>,
                  !.stats.led_set_count = @ + 1]
          /\ ret' = PLATFORM_OK

platform_set_led_rgb(rgb) ==
  /\ op' = Call("platform_set_led_rgb", rgb)
  /\ IF ~g_mock_platform.initialized
     THEN /\ g_mock_platform' = set_error(g_mock_platform, ErrNotInitialized)
          /\ ret' = PLATFORM_ERROR_NOT_INITIALIZED
     ELSE /\ g_mock_platform' =
               [g_mock_platform EXCEPT
                  !.led_rgb = rgb,
                  !.stats.led_set_count = @ + 1]
          /\ ret' = PLATFORM_OK

\* platform_get_button_state that stores the state it resolved
platform_get_button_state_stores(env_type, env_button) ==
  LET g == InitBody(g_mock_platform, env_type) IN
  /\ g_mock_platform' =
       [g EXCEPT !.stats.button_read_count = @ + 1,
                 !.button_state = get_button_state_from_env(g, env_button)]
  /\ op' = Call("platform_get_button_state", <<env_button>>)
  /\ ret' = get_button_state_from_env(g, env_button)

platform_get_button_state(env_type, env_button) ==
  LET g == InitBody(g_mock_platform, env_type) IN
  /\ g_mock_platform' = [g EXCEPT !.stats.button_read_count = @ + 1]
  /\ op' = Call("platform_get_button_state", <<env_button>>)
  /\ ret' = get_button_state_from_env(g, env_button)

\* platform_get_ps5_power that counts the call as a button read
platform_get_ps5_power_counts_button(env_type, env_ps5) ==
  LET g == InitBody(g_mock_platform, env_type) IN
  /\ g_mock_platform' = [g EXCEPT !.stats.button_read_count = @ + 1]
  /\ op' = Call("platform_get_ps5_power", <<env_ps5>>)
  /\ ret' = get_ps5_power_from_env(g, env_ps5)

platform_get_ps5_power(env_type, env_ps5) ==
  LET g == InitBody(g_mock_platform, env_type) IN
  /\ g_mock_platform' = [g EXCEPT !.stats.ps5_query_count = @ + 1]
  /\ op' = Call("platform_get_ps5_power", <<env_ps5>>)
  /\ ret' = get_ps5_power_from_env(g, env_ps5)

\* platform_send_ps5_wake that wakes only a console known to be off or in
\* standby
platform_send_ps5_wake_if_known ==
  /\ op' = Call("platform_send_ps5_wake", <<>>)
  /\ IF ~g_mock_platform.initialized
     THEN /\ g_mock_platform' = set_error(g_mock_platform, ErrNotInitialized)
          /\ ret' = PLATFORM_ERROR_NOT_INITIALIZED
     ELSE /\ g_mock_platform' =
               [g_mock_platform EXCEPT
                  !.stats.ps5_wake_count = @ + 1,
                  !.ps5_power = IF @ = PLATFORM_PS5_UNKNOWN THEN @
                                ELSE PLATFORM_PS5_ON]
          /\ ret' = PLATFORM_OK

platform_send_ps5_wake ==
  /\ op' = Call("platform_send_ps5_wake", <<>>)
  /\ IF ~g_mock_platform.initialized
     THEN /\ g_mock_platform' = set_error(g_mock_platform, ErrNotInitialized)
          /\ ret' = PLATFORM_ERROR_NOT_INITIALIZED
     ELSE /\ g_mock_platform' =
               [g_mock_platform EXCEPT
                  !.stats.ps5_wake_count = @ + 1,
                  !.ps5_power = PLATFORM_PS5_ON]
          /\ ret' = PLATFORM_OK

platform_get_last_error ==
  /\ g_mock_platform' = g_mock_platform
  /\ op' = Call("platform_get_last_error", <<>>)
  /\ ret' = IF g_mock_platform.last_error = NoError THEN NULL
            ELSE g_mock_platform.last_error

\* platform_reset that resets the console power as platform_init does
platform_reset_full ==
  /\ op' = Call("platform_reset", <<>>)
  /\ IF ~g_mock_platform.initialized
     THEN /\ g_mock_platform' = set_error(g_mock_platform, ErrNotInitialized)
          /\ ret' = PLATFORM_ERROR_NOT_INITIALIZED
     ELSE /\ g_mock_platform' =
               [g_mock_platform EXCEPT
                  !.led_state = LED_STATE_OFF,
                  !.button_state = PLATFORM_BUTTON_RELEASED,
                  !.ps5_power = PLATFORM_PS5_OFF,
                  !.led_rgb = <<0, 0, 0>>,
                  !.last_error = NoError]
          /\ ret' = PLATFORM_OK

\* platform_reset that does not clear the error message
platform_reset_keeps_error ==
  /\ op' = Call("platform_reset", <<>>)
  /\ IF ~g_mock_platform.initialized
     THEN /\ g_mock_platform' = set_error(g_mock_platform, ErrNotInitialized)
          /\ ret' = PLATFORM_ERROR_NOT_INITIALIZED
     ELSE /\ g_mock_platform' =
               [g_mock_platform EXCEPT
                  !.led_state = LED_STATE_OFF,
                  !.button_state = PLATFORM_BUTTON_RELEASED,
                  !.led_rgb = <<0, 0, 0>>]
          /\ ret' = PLATFORM_OK

platform_reset ==
  /\ op' = Call("platform_reset", <<>>)
  /\ IF ~g_mock_platform.initialized
     THEN /\ g_mock_platform' = set_error(g_mock_platform, ErrNotInitialized)
          /\ ret' = PLATFORM_ERROR_NOT_INITIALIZED
     ELSE /\ g_mock_platform' =
               [g_mock_platform EXCEPT
                  !.led_state = LED_STATE_OFF,
                  !.button_state = PLATFORM_BUTTON_RELEASED,
                  !.led_rgb = <<0, 0, 0>>,
                  !.last_error = NoError]
          /\ ret' = PLATFORM_OK

(* ---- mock control functions (TESTING builds) ---- *)
mock_platform_set_device_type(type) ==
  /\ g_mock_platform' =
       IF type # NULL /\ (type = "client" \/ type = "server")
       THEN [g_mock_platform EXCEPT !.device_type = type]
       ELSE g_mock_platform
  /\ op' = Call("mock_platform_set_device_type", <<type>>)
  /\ ret' = VOID

mock_platform_set_button_state(state) ==
  /\ g_mock_platform' = [g_mock_platform EXCEPT !.button_state = state]
  /\ op' = Call("mock_platform_set_button_state", <<state>>)
  /\ ret' = VOID

mock_platform_set_ps5_power(power) ==
  /\ g_mock_platform' = [g_mock_platform EXCEPT !.ps5_power = power]
  /\ op' = Call("mock_platform_set_ps5_power", <<power>>)
  /\ ret' = VOID

mock_platform_get_stats ==
  /\ g_mock_platform' = g_mock_platform
  /\ op' = Call("mock_platform_get_stats", <<>>)
  /\ ret' = VOID

mock_platform_reset_stats ==
  /\ g_mock_platform' = [g_mock_platform EXCEPT !.stats = ZeroStats]
  /\ op' = Call("mock_platform_reset_stats", <<>>)
  /\ ret' = VOID

(* ---- the calls a client of the interface can make ---- *)
\* MOCK_DEVICE_TYPE is read only by a call that finds the platform
\* uninitialized
TypeEnvRead == IF g_mock_platform.initialized THEN {NULL} ELSE DeviceTypeEnv

CountedCalls(g) ==
  g.stats.led_set_count + g.stats.button_read_count
    + g.stats.ps5_query_count + g.stats.ps5_wake_count

InBounds == CountedCalls(g_mock_platform') <= MaxCalls

DoInit == \E env_type \in TypeEnvRead : platform_init(env_type)
DoCleanup == platform_cleanup
DoGetVersion == platform_get_version
DoGetDeviceType == \E env_type \in TypeEnvRead : platform_get_device_type(env_type)
DoSetLedState == \E state \in LedArgs : platform_set_led_state(state) /\ InBounds
DoSetLedRgb == \E rgb \in RgbArgs : platform_set_led_rgb(rgb) /\ InBounds
DoGetButtonState ==
  \E env_type \in TypeEnvRead, env_button \in ButtonEnv :
    platform_get_button_state(env_type, env_button) /\ InBounds
DoGetPs5Power ==
  \E env_type \in TypeEnvRead, env_ps5 \in Ps5PowerEnv :
    platform_get_ps5_power(env_type, env_ps5) /\ InBounds
DoSendPs5Wake == platform_send_ps5_wake /\ InBounds
DoGetLastError == platform_get_last_error
DoReset == platform_reset

Next ==
  \/ DoInit
  \/ DoCleanup
  \/ DoGetVersion
  \/ DoGetDeviceType
  \/ DoSetLedState
  \/ DoSetLedRgb
  \/ DoGetButtonState
  \/ DoGetPs5Power
  \/ DoSendPs5Wake
  \/ DoGetLastError
  \/ DoReset

Spec == Init /\ [][Next]_vars

(* ---- a test build: the interface and the mock control functions ---- *)
TestInBounds == CountedCalls(g_mock_platform') <= TestMaxCalls

TestSetLedState == \E state \in FewLedArgs : platform_set_led_state(state) /\ TestInBounds
TestSetLedRgb == \E rgb \in FewRgbArgs : platform_set_led_rgb(rgb) /\ TestInBounds
TestGetButtonState ==
  \E env_type \in TypeEnvRead, env_button \in ButtonEnv :
    platform_get_button_state(env_type, env_button) /\ TestInBounds
TestGetPs5Power ==
  \E env_type \in TypeEnvRead, env_ps5 \in Ps5PowerEnv :
    platform_get_ps5_power(env_type, env_ps5) /\ TestInBounds
TestSendPs5Wake == platform_send_ps5_wake /\ TestInBounds
TestSetDeviceType == \E type \in DeviceTypeArgs : mock_platform_set_device_type(type)
TestSetButtonState == \E state \in ButtonStates : mock_platform_set_button_state(state)
TestSetPs5Power == \E power \in Ps5Powers : mock_platform_set_ps5_power(power)
TestGetStats == mock_platform_get_stats
TestResetStats == mock_platform_reset_stats

NextTest ==
  \/ DoInit
  \/ DoCleanup
  \/ DoGetVersion
  \/ DoGetDeviceType
  \/ TestSetLedState
  \/ TestSetLedRgb
  \/ TestGetButtonState
  \/ TestGetPs5Power
  \/ TestSendPs5Wake
  \/ DoGetLastError
  \/ DoReset
  \/ TestSetDeviceType
  \/ TestSetButtonState
  \/ TestSetPs5Power
  \/ TestGetStats
  \/ TestResetStats

SpecTest == Init /\ [][NextTest]_vars

(***************************************************************************)
(* Properties.  g is the state a call finds, h the state it leaves.        *)
(***************************************************************************)
ColourMapped(g) == g.led_rgb = led_state_to_rgb(g.led_state)
Initializes == ~g_mock_platform.initialized /\ g_mock_platform'.initialized
Returned(name, code) == op.name = name /\ ret = code
Returns(name, code) == op'.name = name /\ ret' = code

\* C1 (as stated): in every reachable state the stored colour is the mapping
\* table's colour for the stored LED state.
C1_ColourAlwaysMapped == ColourMapped(g_mock_platform)

\* C1 (amended): the stored colour is the table's colour for the stored LED
\* state after every successful setLedState and reset, and every call keeps
\* that equality except a successful setLedRgb and a call that initializes
\* an uninitialized platform.
C1_ColourMappedUntilRgbOrInit ==
  [][LET g == g_mock_platform
         h == g_mock_platform'
     IN /\ (Returns("platform_set_led_state", PLATFORM_OK)
              \/ Returns("platform_reset", PLATFORM_OK))
             => ColourMapped(h)
        /\ (/\ ColourMapped(g)
            /\ ~Returns("platform_set_led_rgb", PLATFORM_OK)
            /\ ~Initializes)
             => ColourMapped(h)]_vars

C1_Witness ==
  /\ Returned("platform_set_led_state", PLATFORM_OK)
  /\ op.args = <<LED_STATE_WAKING>>
  /\ g_mock_platform.stats.led_set_count = 2
  /\ g_mock_platform.led_rgb = <<128, 0, 255>>

\* C2: on an initialized platform, after setLedState(S) for any S of the LED
\* enumeration the stored colour is the mapping table's colour for S.
C2_SetLedStateStoresMappedColour ==
  [][(/\ op'.name = "platform_set_led_state"
      /\ g_mock_platform.initialized
      /\ op'.args[1] \in LedEnum)
       => g_mock_platform'.led_rgb = led_state_to_rgb(op'.args[1])]_vars

\* C3: init() on an initialized platform returns OK and changes no field;
\* any init() returns OK and raises the init counter by at most 1, and an
\* init() that directly follows an init() changes nothing.
C3_InitIdempotent ==
  [][op'.name = "platform_init" =>
       LET g == g_mock_platform
           h == g_mock_platform'
       IN /\ ret' = PLATFORM_OK
          /\ h.initialized
          /\ h.stats.init_count <= g.stats.init_count + 1
          /\ g.initialized => h = g
          /\ op.name = "platform_init" => h = g]_vars

C3_Witness ==
  /\ Returned("platform_init", PLATFORM_OK)
  /\ op.inited
  /\ g_mock_platform.stats.init_count = 1
  /\ g_mock_platform.stats.led_set_count = 1
  /\ g_mock_platform.last_error # NoError

\* C4: on an uninitialized platform setLedState (whatever its argument),
\* setLedRgb, sendWake and reset return NOT_INITIALIZED and leave lastError
\* non-empty.
C4_UninitializedCallsFail ==
  [][(/\ op'.name \in {"platform_set_led_state", "platform_set_led_rgb",
                       "platform_send_ps5_wake", "platform_reset"}
      /\ ~g_mock_platform.initialized)
       => /\ ret' = PLATFORM_ERROR_NOT_INITIALIZED
          /\ g_mock_platform'.last_error # NoError]_vars

C4_Witness ==
  /\ Returned("platform_set_led_state", PLATFORM_ERROR_NOT_INITIALIZED)
  /\ op.args = <<LED_STATE_OFF - 1>>
  /\ ~op.inited
  /\ g_mock_platform.last_error = ErrNotInitialized

\* C5: reset() on an initialized platform returns OK, leaves ledState off,
\* ledColor (0,0,0), buttonState released and lastError empty, and keeps
\* consolePower, the five counters, deviceRole and initialized.
C5_ResetFrame ==
  [][(op'.name = "platform_reset" /\ g_mock_platform.initialized) =>
       LET g == g_mock_platform
           h == g_mock_platform'
       IN /\ ret' = PLATFORM_OK
          /\ h.led_state = LED_STATE_OFF
          /\ h.led_rgb = <<0, 0, 0>>
          /\ h.button_state = PLATFORM_BUTTON_RELEASED
          /\ h.last_error = NoError
          /\ h.ps5_power = g.ps5_power
          /\ h.stats = g.stats
          /\ h.device_type = g.device_type
          /\ h.initialized = g.initialized]_vars

C5_Witness ==
  /\ Returned("platform_reset", PLATFORM_OK)
  /\ g_mock_platform.ps5_power = PLATFORM_PS5_STANDBY
  /\ g_mock_platform.stats.led_set_count = 1
  /\ g_mock_platform.stats.ps5_wake_count = 1
  /\ g_mock_platform.device_type = "server"

\* C6: sendWake() on an initialized platform returns OK, sets consolePower
\* to on whatever it was, raises the wake counter by 1 and changes nothing
\* else.
C6_WakeSetsPowerOn ==
  [][(op'.name = "platform_send_ps5_wake" /\ g_mock_platform.initialized) =>
       LET g == g_mock_platform
           h == g_mock_platform'
       IN /\ ret' = PLATFORM_OK
          /\ h = [g EXCEPT !.ps5_power = PLATFORM_PS5_ON,
                           !.stats.ps5_wake_count = g.stats.ps5_wake_count + 1]]_vars

C6_Witness ==
  /\ Returned("platform_send_ps5_wake", PLATFORM_OK)
  /\ g_mock_platform.ps5_power = PLATFORM_PS5_ON
  /\ g_mock_platform.stats.ps5_wake_count = 1
  /\ g_mock_platform.button_state = PLATFORM_BUTTON_PRESSED

ButtonOverridePressed(env_button) == env_button \in {"1", "pressed"}

\* C7 (as stated): getButtonState() returns pressed under the override "1"
\* or "pressed" and the stored buttonState otherwise, and never changes the
\* stored buttonState.
C7_ButtonQueryNeverChangesStored ==
  [][op'.name = "platform_get_button_state" =>
       /\ ret' = IF ButtonOverridePressed(op'.args[1])
                 THEN PLATFORM_BUTTON_PRESSED
                 ELSE g_mock_platform.button_state
       /\ g_mock_platform'.button_state = g_mock_platform.button_state]_vars

\* C7 (amended): getButtonState() returns pressed under the override "1" or
\* "pressed" and otherwise the buttonState stored when it returns; a call on
\* an initialized platform leaves the stored buttonState as it was, a call
\* on an uninitialized platform leaves it released.
C7_ButtonOverrideNotStored ==
  [][op'.name = "platform_get_button_state" =>
       LET g == g_mock_platform
           h == g_mock_platform'
       IN /\ ret' = IF ButtonOverridePressed(op'.args[1])
                    THEN PLATFORM_BUTTON_PRESSED
                    ELSE h.button_state
          /\ g.initialized => h.button_state = g.button_state
          /\ ~g.initialized => h.button_state = PLATFORM_BUTTON_RELEASED]_vars

C7_Witness ==
  /\ Returned("platform_get_button_state", PLATFORM_BUTTON_PRESSED)
  /\ op.args = <<"pressed">>
  /\ op.inited
  /\ g_mock_platform.button_state = PLATFORM_BUTTON_RELEASED

Ps5Override(env_ps5) ==
  CASE env_ps5 = "off" -> PLATFORM_PS5_OFF
    [] env_ps5 = "standby" -> PLATFORM_PS5_STANDBY
    [] env_ps5 = "on" -> PLATFORM_PS5_ON
    [] OTHER -> NULL

\* C8 (as stated): getConsolePower() returns the override when it is off,
\* standby or on and the stored consolePower otherwise, and never changes
\* the stored consolePower.
C8_PowerQueryNeverChangesStored ==
  [][op'.name = "platform_get_ps5_power" =>
       /\ ret' = IF Ps5Override(op'.args[1]) # NULL
                 THEN Ps5Override(op'.args[1])
                 ELSE g_mock_platform.ps5_power
       /\ g_mock_platform'.ps5_power = g_mock_platform.ps5_power]_vars

\* C8 (amended): getConsolePower() returns the override when it is off,
\* standby or on and otherwise the consolePower stored when it returns; a
\* call on an initialized platform leaves the stored consolePower as it
\* was, a call on an uninitialized platform leaves it off.
C8_PowerOverrideNotStored ==
  [][op'.name = "platform_get_ps5_power" =>
       LET g == g_mock_platform
           h == g_mock_platform'
       IN /\ ret' = IF Ps5Override(op'.args[1]) # NULL
                    THEN Ps5Override(op'.args[1])
                    ELSE h.ps5_power
          /\ g.initialized => h.ps5_power = g.ps5_power
          /\ ~g.initialized => h.ps5_power = PLATFORM_PS5_OFF]_vars

C8_Witness ==
  /\ Returned("platform_get_ps5_power", PLATFORM_PS5_STANDBY)
  /\ op.args = <<"standby">>
  /\ op.inited
  /\ g_mock_platform.ps5_power = PLATFORM_PS5_ON
  /\ g_mock_platform.stats.ps5_query_count = 2

NonNegative(g) ==
  /\ g.stats.init_count >= 0
  /\ g.stats.led_set_count >= 0
  /\ g.stats.button_read_count >= 0
  /\ g.stats.ps5_query_count >= 0
  /\ g.stats.ps5_wake_count >= 0
NotLowered(g, h) ==
  /\ h.stats.init_count >= g.stats.init_count
  /\ h.stats.led_set_count >= g.stats.led_set_count
  /\ h.stats.button_read_count >= g.stats.button_read_count
  /\ h.stats.ps5_query_count >= g.stats.ps5_query_count
  /\ h.stats.ps5_wake_count >= g.stats.ps5_wake_count

\* C9 (as stated): the five counters are never negative, and no call lowers
\* one except the reset of the statistics.
C9_CountersOnlyLoweredByStatsReset ==
  [][/\ NonNegative(g_mock_platform')
     /\ op'.name # "mock_platform_reset_stats"
          => NotLowered(g_mock_platform, g_mock_platform')]_vars

\* C9 (amended): the five counters are never negative, and no call lowers
\* one except the reset of the statistics and a call that initializes an
\* uninitialized platform (which zeroes them before counting itself).
C9_CountersOnlyLoweredByResetOrInit ==
  [][/\ NonNegative(g_mock_platform) /\ NonNegative(g_mock_platform')
     /\ (op'.name # "mock_platform_reset_stats" /\ ~Initializes)
          => NotLowered(g_mock_platform, g_mock_platform')]_vars

C9_Witness ==
  /\ op.name = "platform_cleanup"
  /\ op.inited
  /\ g_mock_platform.stats.init_count = 1
  /\ g_mock_platform.stats.led_set_count = 1
  /\ g_mock_platform.stats.ps5_wake_count = 1

\* C10 (as stated): after every init() and reset() that returned success
\* lastError is empty.
C10_ErrorEmptyAfterInitOrReset ==
  (Returned("platform_init", PLATFORM_OK) \/ Returned("platform_reset", PLATFORM_OK))
    => g_mock_platform.last_error = NoError

\* C10 (amended): lastError is empty after every init() that found the
\* platform uninitialized and after every reset() that returned success; an
\* init() on an initialized platform returns success and leaves lastError
\* as it was.
C10_ErrorEmptyAfterFirstInitOrReset ==
  [][LET g == g_mock_platform
         h == g_mock_platform'
     IN /\ (Returns("platform_init", PLATFORM_OK) /\ ~g.initialized)
             => h.last_error = NoError
        /\ Returns("platform_reset", PLATFORM_OK) => h.last_error = NoError
        /\ (Returns("platform_init", PLATFORM_OK) /\ g.initialized)
             => h.last_error = g.last_error]_vars

C10_Witness ==
  /\ Returned("platform_reset", PLATFORM_OK)
  /\ g_mock_platform.last_error = NoError
  /\ g_mock_platform.stats.led_set_count = 1

\* C11: after a call that returns a failure code lastError is the message of
\* that failure alone: "Platform not initialized" after NOT_INITIALIZED, the
\* invalid-state message with the rejected argument after INVALID_PARAM,
\* whatever message was stored before.
C11_ErrorIsLatestFailure ==
  [][LET h == g_mock_platform'
     IN /\ (/\ op'.name \in {"platform_set_led_state", "platform_set_led_rgb",
                             "platform_send_ps5_wake", "platform_reset"}
            /\ ret' = PLATFORM_ERROR_NOT_INITIALIZED)
             => h.last_error = "Platform not initialized"
        /\ Returns("platform_set_led_state", PLATFORM_ERROR_INVALID_PARAM)
             => /\ op'.args[1] = 12 => h.last_error = "Invalid LED state: 12"
                /\ op'.args[1] = 11 => h.last_error = "Invalid LED state: 11"
                /\ op'.args[1] = 10 => h.last_error = "Invalid LED state: 10"
                /\ op'.args[1] = -1 => h.last_error = "Invalid LED state: -1"
                /\ op'.args[1] \in {-1, 10, 11, 12}]_vars

C11_Witness ==
  /\ Returned("platform_set_led_state", PLATFORM_ERROR_INVALID_PARAM)
  /\ op.args = <<LED_STATE_SYSTEM_STARTUP + 1>>
  /\ g_mock_platform.last_error = "Invalid LED state: 12"
  /\ g_mock_platform.stats.led_set_count = 2

DeviceRoles == {"client", "server"}

\* the call just made found the platform uninitialized and read
\* MOCK_DEVICE_TYPE as env_type
ReadsTypeEnv(env_type) ==
  /\ ~g_mock_platform.initialized
  /\ CASE op'.name = "platform_init" -> platform_init(env_type)
       [] op'.name = "platform_get_device_type" ->
            platform_get_device_type(env_type)
       [] op'.name = "platform_get_button_state" ->
            platform_get_button_state(env_type, op'.args[1])
       [] op'.name = "platform_get_ps5_power" ->
            platform_get_ps5_power(env_type, op'.args[1])
       [] OTHER -> FALSE

\* C12: the stored role is "client" or "server" in every state; a role
\* override or an argument of mock_platform_set_device_type that is neither
\* leaves the stored role as it was, and getDeviceRole() returns one of the
\* two.
C12_RoleIsClientOrServer ==
  [][LET g == g_mock_platform
         h == g_mock_platform'
     IN /\ g.device_type \in DeviceRoles
        /\ h.device_type \in DeviceRoles
        /\ \A env_type \in DeviceTypeEnv \ DeviceRoles :
             ReadsTypeEnv(env_type) => h.device_type = g.device_type
        /\ (op'.name = "mock_platform_set_device_type"
              /\ op'.args[1] \notin DeviceRoles)
             => h.device_type = g.device_type
        /\ op'.name = "platform_get_device_type"
             => ret' \in DeviceRoles /\ ret' = h.device_type]_vars

C12_Witness ==
  /\ op.name = "mock_platform_set_device_type"
  /\ op.args = <<"router">>
  /\ g_mock_platform.device_type = "server"
  /\ g_mock_platform.initialized

\* C13 (as stated): once the first initialization has happened, no call of
\* the public interface changes the stored role, whatever the role override
\* is at the time of the call.
C13_RoleFixedAfterFirstInit ==
  [][g_mock_platform.stats.init_count > 0
       => g_mock_platform'.device_type = g_mock_platform.device_type]_vars

\* C13 (amended): no call of the public interface changes the stored role
\* unless it initializes an uninitialized platform (the first init or query,
\* or the first after a cleanup); such a call sets the role to the role
\* override when that is "client" or "server".
C13_RoleFixedWhileInitialized ==
  [][LET g == g_mock_platform
         h == g_mock_platform'
     IN /\ ~Initializes => h.device_type = g.device_type
        /\ \A env_type \in DeviceRoles :
             ReadsTypeEnv(env_type) => h.device_type = env_type]_vars

C13_Witness ==
  /\ op.name = "platform_get_device_type"
  /\ op.inited
  /\ ret = "server"
  /\ g_mock_platform.stats.led_set_count = 1
  /\ g_mock_platform.stats.ps5_wake_count = 1

\* C14: cleanup() on an uninitialized platform changes nothing; on an
\* initialized platform it clears initialized and leaves the five counters,
\* ledState, ledColor, buttonState, consolePower, deviceRole and lastError
\* as they were.
C14_CleanupFrame ==
  [][op'.name = "platform_cleanup" =>
       LET g == g_mock_platform
           h == g_mock_platform'
       IN /\ ~g.initialized => h = g
          /\ g.initialized =>
               /\ ~h.initialized
               /\ h.stats = g.stats
               /\ h.led_state = g.led_state
               /\ h.led_rgb = g.led_rgb
               /\ h.button_state = g.button_state
               /\ h.ps5_power = g.ps5_power
               /\ h.device_type = g.device_type
               /\ h.last_error = g.last_error]_vars

C14_Witness ==
  /\ op.name = "platform_cleanup"
  /\ op.inited
  /\ ~g_mock_platform.initialized
  /\ g_mock_platform.last_error = "Invalid LED state: 12"
  /\ g_mock_platform.button_state = PLATFORM_BUTTON_PRESSED
  /\ g_mock_platform.ps5_power = PLATFORM_PS5_STANDBY
  /\ g_mock_platform.led_state = LED_STATE_VPN_CONNECTED
  /\ g_mock_platform.stats.ps5_wake_count = 1

\* C15: setLedRgb(r,g,b) on an initialized platform returns OK, stores
\* (r,g,b) as ledColor, raises the LED-set counter by 1 and leaves ledState
\* and every other field as it was.
C15_SetLedRgbFrame ==
  [][(op'.name = "platform_set_led_rgb" /\ g_mock_platform.initialized) =>
       LET g == g_mock_platform
           h == g_mock_platform'
       IN /\ ret' = PLATFORM_OK
          /\ h.led_rgb = op'.args
          /\ h.stats.led_set_count = g.stats.led_set_count + 1
          /\ h.led_state = g.led_state
          /\ h = [g EXCEPT !.led_rgb = h.led_rgb,
                           !.stats.led_set_count = h.stats.led_set_count]]_vars

C15_Witness ==
  /\ Returned("platform_set_led_rgb", PLATFORM_OK)
  /\ op.args = <<10, 20, 30>>
  /\ g_mock_platform.led_rgb = <<10, 20, 30>>
  /\ g_mock_platform.led_state = LED_STATE_WAKING
  /\ g_mock_platform.stats.led_set_count = 2
  /\ g_mock_platform.ps5_power = PLATFORM_PS5_ON

\* C16: setLedState(state) on an initialized platform returns INVALID_PARAM
\* exactly when state lies outside the enumeration (off .. system-startup);
\* for a state of the enumeration it returns OK, stores the state and
\* raises the LED-set counter by 1.
C16_InvalidParamIffOutsideEnum ==
  [][(op'.name = "platform_set_led_state" /\ g_mock_platform.initialized) =>
       LET g == g_mock_platform
           h == g_mock_platform'
           state == op'.args[1]
       IN /\ (ret' = PLATFORM_ERROR_INVALID_PARAM) <=> (state \notin LedEnum)
          /\ state \in LedEnum =>
               /\ ret' = PLATFORM_OK
               /\ h.led_state = state
               /\ h.stats.led_set_count = g.stats.led_set_count + 1]_vars

\* C17 (as stated): every getButtonState() leaves the button-read counter 1
\* higher than it found it and every getConsolePower() leaves the
\* power-query counter 1 higher than it found it, initialized or not.
C17_QueryRaisesCounterByOne ==
  [][LET g == g_mock_platform
         h == g_mock_platform'
     IN /\ op'.name = "platform_get_button_state"
             => h.stats.button_read_count = g.stats.button_read_count + 1
        /\ op'.name = "platform_get_ps5_power"
             => h.stats.ps5_query_count = g.stats.ps5_query_count + 1]_vars

\* C17 (amended): on an initialized platform getButtonState() leaves the
\* button-read counter, and getConsolePower() the power-query counter, 1
\* higher than it found it and the other four counters as they were; on an
\* uninitialized platform the call leaves its own counter and the init
\* counter at 1 and the other three at 0.
C17_QueryCountsItself ==
  [][LET g == g_mock_platform
         h == g_mock_platform'
     IN /\ (op'.name = "platform_get_button_state" /\ g.initialized)
             => h.stats = [g.stats EXCEPT !.button_read_count = @ + 1]
        /\ (op'.name = "platform_get_ps5_power" /\ g.initialized)
             => h.stats = [g.stats EXCEPT !.ps5_query_count = @ + 1]
        /\ (op'.name = "platform_get_button_state" /\ ~g.initialized)
             => h.stats = [ZeroStats EXCEPT !.init_count = 1,
                                            !.button_read_count = 1]
        /\ (op'.name = "platform_get_ps5_power" /\ ~g.initialized)
             => h.stats = [ZeroStats EXCEPT !.init_count = 1,
                                            !.ps5_query_count = 1]]_vars

C17_Witness ==
  /\ op.name = "platform_get_ps5_power"
  /\ op.args = <<"standby">>
  /\ ret = PLATFORM_PS5_STANDBY
  /\ g_mock_platform.stats.ps5_query_count = 2
  /\ g_mock_platform.stats.button_read_count = 1

\* C18: an init() that runs on an uninitialized platform returns OK and ends
\* with initialized true, ledState off, buttonState released, stored
\* consolePower off, lastError empty, init counter 1 and the other four
\* counters 0, whatever the state held before; deviceRole becomes the role
\* override if that is "client" or "server" and is otherwise left as it was.
C18_InitDefaults ==
  [][(op'.name = "platform_init" /\ ~g_mock_platform.initialized) =>
       LET g == g_mock_platform
           h == g_mock_platform'
       IN /\ ret' = PLATFORM_OK
          /\ h.initialized
          /\ h.led_state = LED_STATE_OFF
          /\ h.button_state = PLATFORM_BUTTON_RELEASED
          /\ h.ps5_power = PLATFORM_PS5_OFF
          /\ h.last_error = NoError
          /\ h.stats = [init_count |-> 1, led_set_count |-> 0,
                        button_read_count |-> 0, ps5_query_count |-> 0,
                        ps5_wake_count |-> 0]
          /\ \A env_type \in DeviceTypeEnv :
               ReadsTypeEnv(env_type) =>
                 h.device_type = IF env_type \in DeviceRoles
                                 THEN env_type ELSE g.device_type]_vars

C18_Witness ==
  /\ op.name = "platform_init"
  /\ ~op.inited
  /\ ret = PLATFORM_OK
  /\ g_mock_platform.initialized
  /\ g_mock_platform.device_type = "server"
  /\ g_mock_platform.led_state = LED_STATE_OFF
  /\ g_mock_platform.led_rgb = <<10, 20, 30>>
  /\ g_mock_platform.ps5_power = PLATFORM_PS5_OFF
  /\ g_mock_platform.stats = [ZeroStats EXCEPT !.init_count = 1]

AutoInitQueries ==
  {"platform_get_device_type", "platform_get_button_state",
   "platform_get_ps5_power"}

\* C19: the initialized flag becomes true only through init() or one of the
\* three auto-initializing queries and becomes false only through
\* cleanup(); a query made while uninitialized performs the full init
\* first, so afterwards initialized is true, the init counter is 1, and with
\* no override present getButtonState returns released and getConsolePower
\* returns off; setLedState, setLedRgb, sendWake, reset, getVersion and
\* getLastError never change the initialized flag.
C19_InitializedFlagTransitions ==
  [][LET g == g_mock_platform
         h == g_mock_platform'
     IN /\ (~g.initialized /\ h.initialized)
             => op'.name \in AutoInitQueries \cup {"platform_init"}
        /\ (g.initialized /\ ~h.initialized) => op'.name = "platform_cleanup"
        /\ (op'.name \in AutoInitQueries /\ ~g.initialized) =>
             /\ h.initialized
             /\ h.stats.init_count = 1
             /\ h.led_state = LED_STATE_OFF
             /\ h.button_state = PLATFORM_BUTTON_RELEASED
             /\ h.ps5_power = PLATFORM_PS5_OFF
             /\ h.last_error = NoError
             /\ (op'.name = "platform_get_button_state" /\ op'.args = <<NULL>>)
                  => ret' = PLATFORM_BUTTON_RELEASED
             /\ (op'.name = "platform_get_ps5_power" /\ op'.args = <<NULL>>)
                  => ret' = PLATFORM_PS5_OFF
        /\ op'.name \in {"platform_set_led_state", "platform_set_led_rgb",
                         "platform_send_ps5_wake", "platform_reset",
                         "platform_get_version", "platform_get_last_error"}
             => h.initialized = g.initialized]_vars

C19_Witness ==
  /\ op.name = "platform_get_ps5_power"
  /\ ~op.inited
  /\ op.args = <<NULL>>
  /\ ret = PLATFORM_PS5_OFF
  /\ g_mock_platform.initialized
  /\ g_mock_platform.stats.init_count = 1
  /\ g_mock_platform.stats.ps5_query_count = 1
  /\ g_mock_platform.led_rgb = <<10, 20, 30>>

FailureCodes == {PLATFORM_ERROR_NOT_INITIALIZED, PLATFORM_ERROR_INVALID_PARAM}

\* C20: a call that returns a failure code (NOT_INITIALIZED from
\* setLedState, setLedRgb, sendWake or reset; INVALID_PARAM from
\* setLedState) changes lastError only: ledState, ledColor, buttonState,
\* consolePower, deviceRole, the initialized flag and all five counters are
\* the same before and after the failing call.
C20_FailureChangesOnlyLastError ==
  [][LET g == g_mock_platform
         h == g_mock_platform'
     IN /\ ret' = PLATFORM_ERROR_NOT_INITIALIZED
             => op'.name \in {"platform_set_led_state", "platform_set_led_rgb",
                              "platform_send_ps5_wake", "platform_reset"}
        /\ ret' = PLATFORM_ERROR_INVALID_PARAM
             => op'.name = "platform_set_led_state"
        /\ ret' \in FailureCodes
             => /\ h.led_state = g.led_state
                /\ h.led_rgb = g.led_rgb
                /\ h.button_state = g.button_state
                /\ h.ps5_power = g.ps5_power
                /\ h.device_type = g.device_type
                /\ h.initialized = g.initialized
                /\ h.stats = g.stats
                /\ h = [g EXCEPT !.last_error = h.last_error]]_vars

C20_Witness ==
  /\ Returned("platform_set_led_state", PLATFORM_ERROR_INVALID_PARAM)
  /\ op.args = <<12>>
  /\ g_mock_platform.last_error = ErrInvalidLedState(12)
  /\ g_mock_platform.led_state = LED_STATE_WAKING
  /\ g_mock_platform.stats.led_set_count = 1
  /\ g_mock_platform.stats.ps5_wake_count = 1

\* C21: in every reachable state the init counter is 0 or 1: a repeated
\* init() on an initialized platform does not increment it and an init()
\* after cleanup zeroes it before incrementing.
C21_InitCountAtMostOne ==
  g_mock_platform.stats.init_count \in {0, 1}

\* an init() after a cleanup (the colour was set while initialized) on a
\* platform that had been initialized before
C21_Witness ==
  /\ op.name = "platform_init"
  /\ ~op.inited
  /\ g_mock_platform.initialized
  /\ g_mock_platform.device_type = "client"
  /\ g_mock_platform.led_rgb = <<10, 20, 30>>
  /\ g_mock_platform.stats.init_count = 1
====
